---------------------------- MODULE Spec2Model ----------------------------
(***************************************************************************)
(* A model of htmlpretty's printer (print.go): the recursive walk of       *)
(* Print over a parsed HTML tree, unrolled into a state machine with an    *)
(* explicit stack of open elements.                                        *)
(*                                                                         *)
(* A Go string is a sequence of one-character strings; the characters that *)
(* TLA+ cannot write are named below.  len() counts bytes, as Go does.     *)
(***************************************************************************)
EXTENDS Integers, Sequences, FiniteSets, TLC

VARIABLES
  tree,    \* the html.Node tree handed to Print: node 1 is the root
  p,       \* the printer struct, with the io.Writer it writes to
  stack,   \* the element() calls in progress: <<[n, inline], ...>>
  next,    \* the child the innermost loop handles next (nil: none left)
  pc,      \* "start", "walk", "done"
  ret,     \* what Print returned (nil: no error)
  arg,     \* argument of the pure function under test (function runs only)
  res      \* its result

vars == <<tree, p, stack, next, pc, ret, arg, res>>

nil == 0

-----------------------------------------------------------------------------
(* Characters.                                                             *)

SP == " "
LF == "\n"
TAB == "\t"
FF == "\f"
CR == "\r"
VT == "VT"       \* U+000B, one byte
NEL == "NEL"     \* U+0085, two bytes in UTF-8
NBSP == "NBSP"   \* U+00A0, two bytes in UTF-8
AMP == "&"
LT == "<"
GT == ">"
QUOT == "\""

ByteLen(c) == IF c \in {NEL, NBSP} THEN 2 ELSE 1

RECURSIVE len(_)
len(s) == IF s = <<>> THEN 0 ELSE ByteLen(Head(s)) + len(Tail(s))

\* whitespace = regexp.MustCompile(`[\t\n\f\r ]+`)
whitespaceChars == {TAB, LF, FF, CR, SP}

\* unicode.IsSpace, which strings.Fields and strings.TrimSpace use
IsSpace(c) == c \in {TAB, LF, VT, FF, CR, SP, NEL, NBSP}

RECURSIVE Repeat(_, _)
Repeat(s, n) == IF n <= 0 THEN <<>> ELSE s \o Repeat(s, n - 1)

RECURSIVE Join(_)
Join(ss) == IF ss = <<>> THEN <<>> ELSE Head(ss) \o Join(Tail(ss))

HasPrefix(s, pre) == Len(pre) <= Len(s) /\ SubSeq(s, 1, Len(pre)) = pre

Drop(s, k) == SubSeq(s, k + 1, Len(s))

\* strings.Replace(s, old, new, -1), old non-empty
RECURSIVE Replace(_, _, _)
Replace(s, old, new) ==
  IF s = <<>> THEN <<>>
  ELSE IF HasPrefix(s, old) THEN new \o Replace(Drop(s, Len(old)), old, new)
  ELSE <<Head(s)>> \o Replace(Tail(s), old, new)

\* strings.TrimLeft(s, " ")
RECURSIVE TrimLeft(_)
TrimLeft(s) == IF s # <<>> /\ Head(s) = SP THEN TrimLeft(Tail(s)) ELSE s

\* strings.TrimRight(s, " ")
RECURSIVE TrimRight(_)
TrimRight(s) ==
  IF s # <<>> /\ s[Len(s)] = SP THEN TrimRight(SubSeq(s, 1, Len(s) - 1)) ELSE s

\* strings.TrimSpace(s)
RECURSIVE TrimSpace(_)
TrimSpace(s) ==
  IF s # <<>> /\ IsSpace(Head(s)) THEN TrimSpace(Tail(s))
  ELSE IF s # <<>> /\ IsSpace(s[Len(s)]) THEN TrimSpace(SubSeq(s, 1, Len(s) - 1))
  ELSE s

\* strings.Fields(s): the maximal runs of non-space characters
RECURSIVE FieldsFrom(_, _)
FieldsFrom(s, cur) ==
  IF s = <<>> THEN (IF cur = <<>> THEN <<>> ELSE <<cur>>)
  ELSE IF IsSpace(Head(s))
       THEN (IF cur = <<>> THEN <<>> ELSE <<cur>>) \o FieldsFrom(Tail(s), <<>>)
       ELSE FieldsFrom(Tail(s), Append(cur, Head(s)))

Fields(s) == FieldsFrom(s, <<>>)

\* whitespace.ReplaceAllString(s, " ")
RECURSIVE whitespaceReplaceAll(_)
whitespaceReplaceAll(s) ==
  IF s = <<>> THEN <<>>
  ELSE IF Head(s) \in whitespaceChars
       THEN IF Len(s) > 1 /\ s[2] \in whitespaceChars
            THEN whitespaceReplaceAll(Tail(s))
            ELSE <<SP>> \o whitespaceReplaceAll(Tail(s))
       ELSE <<Head(s)>> \o whitespaceReplaceAll(Tail(s))

\* whitespace.MatchString(s)
whitespaceMatch(s) == \E i \in 1..Len(s) : s[i] \in whitespaceChars

-----------------------------------------------------------------------------
(* The tag tables.                                                         *)

voidTags ==
  {
    <<"a","r","e","a">>, <<"b","a","s","e">>, <<"b","r">>, <<"c","o","l">>,
    <<"e","m","b","e","d">>, <<"h","r">>, <<"i","m","g">>, <<"i","n","p","u","t">>,
    <<"l","i","n","k">>, <<"m","e","t","a">>, <<"p","a","r","a","m">>,
    <<"s","o","u","r","c","e">>, <<"t","r","a","c","k">>, <<"w","b","r">>
  }

inlineTags ==
  {
    <<"a">>, <<"a","b","b","r">>, <<"a","c","r","o","n","y","m">>,
    <<"a","m","p","-","i","m","g">>, <<"b">>, <<"b","i","g">>, <<"c","i","t","e">>,
    <<"c","o","d","e">>, <<"d","a","t","a">>, <<"d","e","f">>, <<"d","e","l">>,
    <<"d","f","n">>, <<"e","m">>, <<"i">>, <<"i","m","g">>, <<"i","n","s">>,
    <<"k","b","d">>, <<"m","a","r","k">>, <<"p","i","c","t","u","r","e">>, <<"q">>,
    <<"s">>, <<"s","m","a","l","l">>, <<"s","p","a","n">>, <<"s","o","u","r","c","e">>,
    <<"s","t","r","o","n","g">>, <<"s","u","b">>, <<"s","u","p">>, <<"s","v","g">>,
    <<"t","i","m","e">>, <<"t","t">>, <<"u">>, <<"w","b","r">>
  }

listTags ==
  {
    <<"a","m","p","-","i","m","g">>, <<"o","l">>, <<"p","i","c","t","u","r","e">>,
    <<"s","v","g">>, <<"u","l">>
  }

omitCloseTags ==
  {
    <<"l","i">>
  }

\* faulty variant: the void tag br is listed as literal too
literalTags_withBr ==
  { <<"n", "o", "s", "c", "r", "i", "p", "t">>,
    <<"s", "c", "r", "i", "p", "t">>,
    <<"s", "t", "y", "l", "e">>,
    <<"b", "r">> }

literalTags ==
  {
    <<"n","o","s","c","r","i","p","t">>, <<"s","c","r","i","p","t">>,
    <<"s","t","y","l","e">>
  }

keepSpaceTags ==
  {
    <<"p","r","e">>
  }

-----------------------------------------------------------------------------
(* html.Node: tree[n] = [Type, Data, Attr, Parent], the nodes in document  *)
(* order, so that the children of a node are in increasing order.          *)

Nodes == 1..Len(tree)

Parent(n) == tree[n].Parent

Children(n) == {m \in Nodes : tree[m].Parent = n}

Min(S) == CHOOSE x \in S : \A y \in S : x <= y
Max(S) == CHOOSE x \in S : \A y \in S : x >= y

FirstChild(n) == IF Children(n) = {} THEN nil ELSE Min(Children(n))

LastChild(n) == IF Children(n) = {} THEN nil ELSE Max(Children(n))

NextSibling(n) ==
  LET later == {m \in Children(Parent(n)) : m > n}
  IN IF later = {} THEN nil ELSE Min(later)

PrevSibling(n) ==
  LET earlier == {m \in Children(Parent(n)) : m < n}
  IN IF earlier = {} THEN nil ELSE Max(earlier)

\* tagSet.has
has(ts, n) == n # nil /\ tree[n].Type = "Element" /\ tree[n].Data \in ts

hasSingleChild(n) == FirstChild(n) # nil /\ FirstChild(n) = LastChild(n)

closeTag(n) ==
  IF tree[n].Type # "Element" \/ has(voidTags, n) \/ has(omitCloseTags, n)
  THEN <<>>
  ELSE <<LT, "/">> \o tree[n].Data \o <<GT>>

\* faulty variant: the ampersands are replaced last
escapeText_ampLast(s) ==
  Replace(Replace(Replace(s, <<LT>>, <<"&", "l", "t", ";">>),
                  <<GT>>, <<"&", "g", "t", ";">>),
          <<AMP>>, <<"&", "a", "m", "p", ";">>)

escapeText(s) ==
  Replace(Replace(Replace(s, <<AMP>>, <<"&", "a", "m", "p", ";">>),
                  <<LT>>, <<"&", "l", "t", ";">>),
          <<GT>>, <<"&", "g", "t", ";">>)

\* faulty variant: the ends are trimmed whatever stands next to the text
collapseText_trimmed(s, n) == TrimRight(TrimLeft(whitespaceReplaceAll(s)))

collapseText(s, n) ==
  LET s1 == whitespaceReplaceAll(s)
  IN IF ~has(inlineTags, Parent(n))
     THEN LET s2 == IF ~has(inlineTags, PrevSibling(n)) THEN TrimLeft(s1) ELSE s1
          IN IF ~has(inlineTags, NextSibling(n)) THEN TrimRight(s2) ELSE s2
     ELSE s1

-----------------------------------------------------------------------------
(* The printer struct.  p.w is the io.Writer: the WriteString calls made   *)
(* so far, and how many more succeed (-1: every one).  Each call is logged  *)
(* with the kind of token it carried and the node being printed; these two  *)
(* annotations are history only and are read by no operator.               *)

noError == "nil"

\* faulty variant: text is taken for literal only two literal elements deep
inLiteral_deep(q) == q.literalDepth > 1

inLiteral(q) == q.literalDepth > 0

inKeepSpace(q) == q.keepSpaceDepth > 0

As(q, kind) == [q EXCEPT !.kind = kind]

\* faulty variant: write goes on after an error
write_unchecked(q, s) ==
  [q EXCEPT
     !.w = [calls |-> Append(@.calls, [s |-> s, kind |-> q.kind, node |-> q.node,
                                        failed |-> q.w.ok = 0]),
            ok |-> IF @.ok > 0 THEN @.ok - 1 ELSE @.ok],
     !.werr = IF q.w.ok = 0 THEN "write failed" ELSE noError,
     !.lineStart = FALSE,
     !.lineWidth = @ + len(s)]

write(q, s) ==
  IF q.werr # noError THEN q
  ELSE [q EXCEPT
          !.w = [calls |-> Append(@.calls, [s |-> s, kind |-> q.kind, node |-> q.node,
                                             failed |-> q.w.ok = 0]),
                 ok |-> IF @.ok > 0 THEN @.ok - 1 ELSE @.ok],
          !.werr = IF q.w.ok = 0 THEN "write failed" ELSE noError,
          !.lineStart = FALSE,
          !.lineWidth = @ + len(s)]

\* faulty variant: one copy of the indent string too many
maybeIndent_deeper(q) ==
  IF inLiteral(q) \/ inKeepSpace(q) \/ ~q.lineStart THEN q
  ELSE As(write(As(q, "indent"), Repeat(q.indentStr, q.level + 1)), q.kind)

maybeIndent(q) ==
  IF inLiteral(q) \/ inKeepSpace(q) \/ ~q.lineStart THEN q
  ELSE As(write(As(q, "indent"), Repeat(q.indentStr, q.level)), q.kind)

\* faulty variant: endl forgets the keep-space check
endl_inKeepSpace(q) ==
  IF inLiteral(q) THEN q
  ELSE IF q.lineStart THEN q
  ELSE [write(As(q, "nl"), <<LF>>) EXCEPT
          !.kind = q.kind, !.lineStart = TRUE, !.lineWidth = 0]

endl(q) ==
  IF inLiteral(q) \/ inKeepSpace(q) THEN q
  ELSE IF q.lineStart THEN q
  ELSE [write(As(q, "nl"), <<LF>>) EXCEPT
          !.kind = q.kind, !.lineStart = TRUE, !.lineWidth = 0]

\* faulty variant: a token may end one byte past the wrap width
wrap_late(q, s, extra) ==
  IF ~inLiteral(q) /\ ~inKeepSpace(q)
     /\ q.wrapWidth > 0 /\ q.lineWidth + len(s) > q.wrapWidth + 1
  THEN write(maybeIndent(endl(q)), extra \o TrimLeft(s))
  ELSE write(q, s)

\* faulty variant: the token keeps its leading space on the new line
wrap_untrimmed(q, s, extra) ==
  IF ~inLiteral(q) /\ ~inKeepSpace(q)
     /\ q.wrapWidth > 0 /\ q.lineWidth + len(s) > q.wrapWidth
  THEN write(maybeIndent(endl(q)), extra \o s)
  ELSE write(q, s)

wrap(q, s, extra) ==
  IF ~inLiteral(q) /\ ~inKeepSpace(q)
     /\ q.wrapWidth > 0 /\ q.lineWidth + len(s) > q.wrapWidth
  THEN write(maybeIndent(endl(q)), extra \o TrimLeft(s))
  ELSE write(q, s)

-----------------------------------------------------------------------------
(* printer.openTag                                                         *)

attrValue(a) ==
  LET val == Replace(a.Val, <<QUOT>>, <<"&", "q", "u", "o", "t", ";">>)
  IN IF a.Key = <<"c", "l", "a", "s", "s">>
     THEN TrimSpace(whitespaceReplaceAll(val))
     ELSE val

attrToken(a) ==
  IF Len(a.Val) > 0
  THEN <<SP>> \o a.Key \o <<"=", QUOT>> \o attrValue(a) \o <<QUOT>>
  ELSE <<SP>> \o a.Key

\* the tokens of n's opening tag: <<"<foo", " abc", " def=\"123\">">>
tagTokens(n) ==
  LET attrs == tree[n].Attr
      toks == <<<<LT>> \o tree[n].Data>> \o [i \in 1..Len(attrs) |-> attrToken(attrs[i])]
  IN [toks EXCEPT ![Len(toks)] = @ \o <<GT>>]

prevTextNotSpace(n) ==
  LET prev == PrevSibling(n)
  IN /\ prev # nil
     /\ tree[prev].Type = "Text"
     /\ \/ tree[prev].Data = <<>>
        \/ ~whitespaceMatch(<<tree[prev].Data[Len(tree[prev].Data)]>>)

\* faulty variant: the space before an inline element never matters
startSpaceMatters_never(n) == FALSE

startSpaceMatters(n) ==
  has(inlineTags, PrevSibling(n)) \/ has(inlineTags, Parent(n)) \/ prevTextNotSpace(n)

\* faulty variant: the test forgets that a width of zero or less means no limit
fitsOnLine_limited(q, n, childLen) ==
  q.lineWidth + len(Join(tagTokens(n))) + childLen + len(closeTag(n)) < q.wrapWidth

\* p.lineWidth+tagLen+childLen+len(closeTag(n)) < p.wrapWidth || p.wrapWidth <= 0
fitsOnLine(q, n, childLen) ==
  \/ q.lineWidth + len(Join(tagTokens(n))) + childLen + len(closeTag(n)) < q.wrapWidth
  \/ q.wrapWidth <= 0

\* lines 375-388, with q the printer after the indentation was written
forceInline(q, n) ==
  /\ ~has(literalTags, n) /\ ~inLiteral(q)
  /\ ~has(keepSpaceTags, n) /\ ~inKeepSpace(q)
  /\ LET childLen ==
           IF FirstChild(n) = nil THEN 0
           ELSE IF hasSingleChild(n) /\ tree[FirstChild(n)].Type = "Text"
                THEN len(collapseText(escapeText(tree[FirstChild(n)].Data), FirstChild(n)))
                ELSE -1
     IN childLen >= 0 /\ fitsOnLine(q, n, childLen)

\* how many leading tokens are written without wrapping
unwrapTokens(q, n, startedLine, forced) ==
  IF startedLine
  THEN IF len(tagTokens(n)[1]) < len(Repeat(q.indentStr, 2)) THEN 2 ELSE 1
  ELSE IF (has(inlineTags, n) \/ forced) /\ startSpaceMatters(n) THEN 1
  ELSE 0

RECURSIVE writeTokens(_, _, _, _, _)
writeTokens(q, tokens, i, unwrap, wrapIndent) ==
  IF i > Len(tokens) THEN q
  ELSE LET qk == As(q, IF i = 1 THEN "tag" ELSE "attr")
       IN writeTokens(IF i - 1 < unwrap THEN write(qk, tokens[i])
                      ELSE wrap(qk, tokens[i], wrapIndent),
                      tokens, i + 1, unwrap, wrapIndent)

\* returns the printer after the tag and forceInline
openTag(q, n) ==
  LET tokens == tagTokens(n)
      tagLen == len(Join(tokens))
      inline == has(inlineTags, n)
      wouldWrap == q.wrapWidth > 0 /\ q.lineWidth + tagLen > q.wrapWidth
      q1 == IF ~inline \/ (wouldWrap /\ ~startSpaceMatters(n)) THEN endl(q) ELSE q
      startedLine == q1.lineStart
      q2 == maybeIndent(q1)
      forced == forceInline(q2, n)
      wrapIndent == IF startedLine THEN Repeat(q.indentStr, 2) ELSE <<>>
  IN [p |-> writeTokens(q2, tokens, 1, unwrapTokens(q2, n, startedLine, forced), wrapIndent),
      forceInline |-> forced]

-----------------------------------------------------------------------------
(* printer.text                                                            *)

RECURSIVE textWords(_, _, _, _, _, _)
textWords(q, words, i, startSpace, endSpace, wrapStart) ==
  IF i > Len(words) THEN q
  ELSE LET w1 == IF i # 1 \/ startSpace THEN <<SP>> \o words[i] ELSE words[i]
           w2 == IF i = Len(words) /\ endSpace /\ w1 # <<SP>> THEN w1 \o <<SP>> ELSE w1
       IN textWords(IF i - 1 < wrapStart THEN write(q, w2) ELSE wrap(q, w2, <<>>),
                    words, i + 1, startSpace, endSpace, wrapStart)

\* whether the first word of n is written without wrapping (wrapStart = 1)
\* faulty variant: the first word is wrapped like any other
gluedStart_never(n, s) == FALSE

gluedStart(n, s) ==
  (has(inlineTags, PrevSibling(n)) \/ has(inlineTags, Parent(n))) /\ s[1] # SP

text(q, n) ==
  LET data == tree[n].Data
      s0 == escapeText(data)
      s == collapseText(s0, n)
  IN IF len(data) = 0 THEN q
     ELSE IF inLiteral(q) THEN write(As(q, "raw"), data)
     ELSE IF inKeepSpace(q) THEN write(As(q, "pre"), s0)
     ELSE IF s = <<>> THEN q
     ELSE IF s = <<SP>> THEN write(As(maybeIndent(q), "space"), s)
     ELSE textWords(As(maybeIndent(q), "word"), Fields(TrimSpace(s)), 1,
                    s[1] = SP, s[Len(s)] = SP,
                    IF gluedStart(n, s) THEN 1 ELSE 0)

-----------------------------------------------------------------------------
(* The walk: doc() and element(), one step per node visit.                 *)

At(q, n) == [q EXCEPT !.node = n]

\* faulty variant: the line is not ended after an element child of a list
afterElement_never(q, callers) == q

\* the loop of the caller, after element(c) returned nil: lines 174-176
afterElement(q, callers) ==
  IF callers # <<>> /\ has(listTags, callers[Len(callers)].n)
  THEN endl(At(q, callers[Len(callers)].n))
  ELSE q

\* line 148
\* faulty variant: no tag is void
isVoid_never(n) == FALSE

isVoid(n) == has(voidTags, n)

\* lines 138-146
enterContent(q, n) ==
  [q EXCEPT !.literalDepth = IF has(literalTags, n) THEN @ + 1 ELSE @,
            !.keepSpaceDepth = IF has(keepSpaceTags, n) THEN @ + 1 ELSE @]

\* faulty variant: the children are indented by two levels
indentChildren_twoLevels(q, n, inline) ==
  IF FirstChild(n) # nil /\ (~inline \/ has(listTags, n))
  THEN [(IF ~has(omitCloseTags, n) THEN endl(q) ELSE q) EXCEPT !.level = @ + 2]
  ELSE q

\* lines 159-166
indentChildren(q, n, inline) ==
  IF FirstChild(n) # nil /\ (~inline \/ has(listTags, n))
  THEN [(IF ~has(omitCloseTags, n) THEN endl(q) ELSE q) EXCEPT !.level = @ + 1]
  ELSE q

\* faulty variant: the line of the last child is not ended
outdentChildren_noBreak(q, n, inline) ==
  IF FirstChild(n) # nil /\ (~inline \/ has(listTags, n))
  THEN [q EXCEPT !.level = @ - 1]
  ELSE q

\* lines 188-192
outdentChildren(q, n, inline) ==
  IF FirstChild(n) # nil /\ (~inline \/ has(listTags, n))
  THEN endl([q EXCEPT !.level = @ - 1])
  ELSE q

\* lines 194-198
writeCloseTag(q, n) ==
  IF ~has(omitCloseTags, n) THEN write(maybeIndent(As(q, "close")), closeTag(n)) ELSE q

\* lines 199-204
leaveContent(q, n) ==
  [q EXCEPT !.literalDepth = IF has(literalTags, n) THEN @ - 1 ELSE @,
            !.keepSpaceDepth = IF has(keepSpaceTags, n) THEN @ - 1 ELSE @]

\* lines 205-207
endElement(q, inline) == IF ~inline THEN endl(q) ELSE q

\* faulty variant: the type of the root is not looked at
DocBegin_anyRoot ==
  /\ pc = "start"
  /\ pc' = "walk"
  /\ ret' = ret
  /\ next' = FirstChild(1)
  /\ UNCHANGED <<tree, p, stack, arg, res>>

\* Print calls doc(root): lines 19-30 and 105-109
DocBegin ==
  /\ pc = "start"
  /\ IF tree[1].Type # "Document"
     THEN /\ pc' = "done"
          /\ ret' = "root node has non-document type"
          /\ next' = nil
     ELSE /\ pc' = "walk"
          /\ ret' = ret
          /\ next' = FirstChild(1)
  /\ UNCHANGED <<tree, p, stack, arg, res>>

\* doc(): case html.DoctypeNode
DocDoctype ==
  /\ pc = "walk" /\ stack = <<>> /\ next # nil
  /\ tree[next].Type = "Doctype"
  /\ p' = endl(write([p EXCEPT !.kind = "doctype", !.node = next],
                     <<"<", "!", "D", "O", "C", "T", "Y", "P", "E", " ">>
                       \o tree[next].Data \o <<">">>))
  /\ next' = NextSibling(next)
  /\ UNCHANGED <<tree, stack, pc, ret, arg, res>>

\* doc(): default case
DocBadChild ==
  /\ pc = "walk" /\ stack = <<>> /\ next # nil
  /\ tree[next].Type \notin {"Doctype", "Element"}
  /\ pc' = "done"
  /\ ret' = "unhandled doc child"
  /\ next' = nil
  /\ UNCHANGED <<tree, p, stack, arg, res>>

\* element(n) from its entry to the first child (or, for a void element, to
\* its return): lines 126-166
ElementOpen ==
  /\ pc = "walk" /\ next # nil
  /\ tree[next].Type = "Element"
  /\ LET n == next
         opened == openTag(At(p, n), n)
         inline == has(inlineTags, n) \/ opened.forceInline
         q == enterContent(opened.p, n)
     IN IF isVoid(n)
        THEN IF has(literalTags, n) \/ has(keepSpaceTags, n)
             THEN /\ pc' = "panic"
                  /\ p' = q
                  /\ UNCHANGED <<stack, next>>
             ELSE /\ p' = afterElement(q, stack)
                  /\ next' = NextSibling(n)
                  /\ UNCHANGED <<stack, pc>>
        ELSE /\ p' = indentChildren(q, n, inline)
             /\ stack' = Append(stack, [n |-> n, inline |-> inline])
             /\ next' = FirstChild(n)
             /\ pc' = pc
  /\ UNCHANGED <<tree, ret, arg, res>>

\* element(): case html.TextNode
TextChild ==
  /\ pc = "walk" /\ stack # <<>> /\ next # nil
  /\ tree[next].Type = "Text"
  /\ p' = text(At(p, next), next)
  /\ next' = NextSibling(next)
  /\ UNCHANGED <<tree, stack, pc, ret, arg, res>>

\* element(): case html.CommentNode
CommentChild ==
  /\ pc = "walk" /\ stack # <<>> /\ next # nil
  /\ tree[next].Type = "Comment"
  /\ next' = NextSibling(next)
  /\ UNCHANGED <<tree, p, stack, pc, ret, arg, res>>

\* element(): default case; the error is returned through every caller
BadChild ==
  /\ pc = "walk" /\ stack # <<>> /\ next # nil
  /\ tree[next].Type \notin {"Element", "Text", "Comment"}
  /\ pc' = "done"
  /\ ret' = "unexpected node"
  /\ stack' = <<>>
  /\ next' = nil
  /\ UNCHANGED <<tree, p, arg, res>>

\* element(n) after its last child, to its return: lines 188-208
ElementClose ==
  /\ pc = "walk" /\ stack # <<>> /\ next = nil
  /\ LET f == stack[Len(stack)]
         callers == SubSeq(stack, 1, Len(stack) - 1)
         q1 == outdentChildren(At(p, f.n), f.n, f.inline)
         q2 == leaveContent(writeCloseTag(q1, f.n), f.n)
     IN /\ p' = afterElement(endElement(q2, f.inline), callers)
        /\ stack' = callers
        /\ next' = NextSibling(f.n)
  /\ UNCHANGED <<tree, pc, ret, arg, res>>

\* faulty variant: Print returns what doc returned
DocEnd_nil ==
  /\ pc = "walk" /\ stack = <<>> /\ next = nil
  /\ pc' = "done"
  /\ ret' = noError
  /\ UNCHANGED <<tree, p, stack, next, arg, res>>

\* doc() returns nil and Print returns p.werr
DocEnd ==
  /\ pc = "walk" /\ stack = <<>> /\ next = nil
  /\ pc' = "done"
  /\ ret' = p.werr
  /\ UNCHANGED <<tree, p, stack, next, arg, res>>

Next ==
  \/ DocBegin
  \/ DocDoctype
  \/ DocBadChild
  \/ ElementOpen
  \/ TextChild
  \/ CommentChild
  \/ BadChild
  \/ ElementClose
  \/ DocEnd

-----------------------------------------------------------------------------
(* The inputs of Print: trees, indent strings and wrap widths.             *)

MaxNodes == 3   \* nodes of a tree below its root

Element(tag, attrs) == [Type |-> "Element", Data |-> tag, Attr |-> attrs]
Text(s) == [Type |-> "Text", Data |-> s, Attr |-> <<>>]
Comment == [Type |-> "Comment", Data |-> <<"c">>, Attr |-> <<>>]
Doctype == [Type |-> "Doctype", Data |-> <<"h", "t", "m", "l">>, Attr |-> <<>>]
Document == [Type |-> "Document", Data |-> <<>>, Attr |-> <<>>]

Attribute(k, v) == [Key |-> k, Val |-> v]

Place(label, parent) ==
  [Type |-> label.Type, Data |-> label.Data, Attr |-> label.Attr, Parent |-> parent]

RECURSIVE Ancestors(_, _)
Ancestors(t, n) == IF n = nil THEN {} ELSE {n} \cup Ancestors(t, t[n].Parent)

\* a tree in document order grows by a node under the last node or under
\* one of its ancestors; only elements and the document get children
Grow(t, top, below) ==
  {Append(t, Place(l, m)) :
     <<l, m>> \in {lm \in (top \cup below) \X Ancestors(t, Len(t)) :
                     /\ t[lm[2]].Type \in {"Document", "Element"}
                     /\ lm[1] \in (IF lm[2] = 1 THEN top ELSE below)}}

RECURSIVE TreesOf(_, _, _)
TreesOf(top, below, k) ==
  IF k = 0 THEN {<<Place(Document, nil)>>}
  ELSE LET smaller == TreesOf(top, below, k - 1)
       IN smaller \cup UNION {Grow(t, top, below) : t \in {u \in smaller : Len(u) = k}}

\* paragraphs and inline elements with running text
FlowElements ==
  { Element(<<"p">>, <<>>),
    Element(<<"b">>, <<>>),
    Element(<<"a">>, <<Attribute(<<"k">>, <<"v">>), Attribute(<<"l">>, <<>>)>>) }
FlowLeaves == { Text(<<"x", SP, "y", "y">>), Text(<<SP, "x", SP>>) }

\* preformatted and literal content
RawElements ==
  { Element(<<"p", "r", "e">>, <<>>),
    Element(<<"s", "t", "y", "l", "e">>, <<>>),
    Element(<<"p">>, <<>>) }
RawLeaves == { Text(<<SP, "a", SP, SP, LF>>), Text(<<"<", "&", ">">>) }

\* lists, void elements and the omitted </li>
ListElements ==
  { Element(<<"u", "l">>, <<>>),
    Element(<<"l", "i">>, <<>>),
    Element(<<"s", "v", "g">>, <<>>),
    Element(<<"b", "r">>, <<>>),
    Element(<<"i", "m", "g">>, <<>>) }
ListLeaves == { Text(<<"x">>) }

\* what may stand under the document node, and what may not
DocLabels == { Element(<<"p">>, <<>>), Doctype, Comment, Text(<<"x", VT, "y">>) }

Trees ==
  TreesOf(FlowElements, FlowElements \cup FlowLeaves, MaxNodes)
    \cup TreesOf(RawElements, RawElements \cup RawLeaves, MaxNodes)
    \cup TreesOf(ListElements, ListElements \cup ListLeaves, MaxNodes)
    \cup TreesOf(DocLabels, DocLabels, MaxNodes)

Indents == { <<>>, <<SP, SP>> }

Wraps == { 0, 5, 10 }

\* Print's printer{w, indentStr, wrapWidth, lineStart: true}
newPrinter(indent, wrapWidth, ok) ==
  [w |-> [calls |-> <<>>, ok |-> ok],
   werr |-> noError,
   indentStr |-> indent,
   wrapWidth |-> wrapWidth,
   level |-> 0,
   literalDepth |-> 0,
   keepSpaceDepth |-> 0,
   lineStart |-> TRUE,
   lineWidth |-> 0,
   kind |-> "none",
   node |-> nil]

Init ==
  /\ tree \in Trees
  /\ \E indent \in Indents, wrapWidth \in Wraps : p = newPrinter(indent, wrapWidth, -1)
  /\ stack = <<>>
  /\ next = nil
  /\ pc = "start"
  /\ ret = noError
  /\ arg = <<>>
  /\ res = <<>>

Spec == Init /\ [][Next]_vars

-----------------------------------------------------------------------------
(* escapeText as a function of its own: every string over a small alphabet *)

MaxLen == 4   \* characters of an argument of escapeText

EscapeAlphabet == { AMP, LT, GT, "l", "t", ";", QUOT, "'" }

RECURSIVE StringsOf(_, _)
StringsOf(alphabet, k) ==
  IF k = 0 THEN {<<>>}
  ELSE LET shorter == StringsOf(alphabet, k - 1)
       IN shorter \cup {Append(s, c) : s \in {u \in shorter : Len(u) = k - 1}, c \in alphabet}

InitEscape ==
  /\ arg \in StringsOf(EscapeAlphabet, MaxLen)
  /\ res = <<>>
  /\ pc = "call"
  /\ tree = <<Place(Document, nil)>>
  /\ p = newPrinter(<<>>, 0, -1)
  /\ stack = <<>>
  /\ next = nil
  /\ ret = noError

EscapeCall ==
  /\ pc = "call"
  /\ res' = escapeText(arg)
  /\ pc' = "return"
  /\ UNCHANGED <<tree, p, stack, next, ret, arg>>

SpecEscape == InitEscape /\ [][EscapeCall]_vars

-----------------------------------------------------------------------------
(* Reading the log of WriteString calls.                                   *)

Calls == p.w.calls

CallsOf(n, kinds) == {i \in 1..Len(Calls) : Calls[i].node = n /\ Calls[i].kind \in kinds}

\* the bytes of calls i..j
Bytes(i, j) == Join([k \in 1..(j - i + 1) |-> Calls[i + k - 1].s])

Opened(n) == CallsOf(n, {"tag"}) # {}
Closed(n) == CallsOf(n, {"close"}) # {}
TagAt(n) == Min(CallsOf(n, {"tag"}))
OpenEnd(n) == Max(CallsOf(n, {"tag", "attr"}))
CloseAt(n) == Min(CallsOf(n, {"close"}))

\* what was written after n's opening tag and before its closing tag
Between(n) == Bytes(OpenEnd(n) + 1, CloseAt(n) - 1)

RECURSIVE SortedSeq(_)
SortedSeq(S) == IF S = {} THEN <<>> ELSE <<Min(S)>> \o SortedSeq(S \ {Min(S)})

ChildSeq(n) == SortedSeq(Children(n))

Inside(n, tags) == \E a \in Ancestors(tree, Parent(n)) : has(tags, a)

Finished == pc = "done" /\ ret = noError

-----------------------------------------------------------------------------
(* C1: literal fidelity                                                    *)

LiteralTextOnly(n) ==
  /\ has(literalTags, n)
  /\ \A c \in Children(n) : tree[c].Type = "Text"

ChildText(n) == Join([i \in 1..Len(ChildSeq(n)) |-> tree[ChildSeq(n)[i]].Data])

\* C1: for every script, style or noscript element whose children are all
\* text nodes, the bytes written between its opening tag and its closing tag
\* are exactly the concatenation of the children's data, whatever the indent
\* string and the wrap width.
C1_LiteralFidelity ==
  \A n \in Nodes :
    (LiteralTextOnly(n) /\ Closed(n)) => Between(n) = ChildText(n)

\* a style element with two text children holding spaces, a newline and
\* the characters escapeText would replace, printed with a wrap width
\* shorter than the text and a non-empty indent
C1_Witness ==
  /\ Finished
  /\ p.wrapWidth = 5 /\ p.indentStr # <<>>
  /\ \E n \in Nodes :
       /\ LiteralTextOnly(n) /\ Closed(n)
       /\ Cardinality(Children(n)) = 2
       /\ \E c, d \in Children(n) : LF \in {tree[c].Data[i] : i \in 1..Len(tree[c].Data)}
                                    /\ tree[d].Data[1] = LT

-----------------------------------------------------------------------------
(* C2: keep-space fidelity                                                 *)

\* the markup of n's children with nothing added: text escaped (raw when
\* literal), tags as their tokens, no child of a void element, no comment
RECURSIVE Markup(_, _)
Markup(n, literal) ==
  LET one(c) ==
        CASE tree[c].Type = "Text" ->
               IF literal THEN tree[c].Data ELSE escapeText(tree[c].Data)
          [] tree[c].Type = "Element" ->
               Join(tagTokens(c))
                 \o (IF has(voidTags, c) THEN <<>>
                     ELSE Markup(c, literal \/ has(literalTags, c)) \o closeTag(c))
          [] OTHER -> <<>>
  IN Join([i \in 1..Len(ChildSeq(n)) |-> one(ChildSeq(n)[i])])

\* the text nodes below n that Print reaches: not below a void element
TextBelow(n) ==
  {t \in Nodes : /\ tree[t].Type = "Text"
                 /\ n \in Ancestors(tree, Parent(t))
                 /\ ~Inside(t, voidTags)}

\* C2 as stated: every text node at any depth inside a pre element is
\* written with only &, < and > replaced by their entities, and between the
\* opening tag of the pre and </pre> there is no indentation and no newline
\* of the printer's own.
C2_Original ==
  \A n \in Nodes :
    (has(keepSpaceTags, n) /\ Closed(n)) =>
      /\ \A t \in TextBelow(n) :
           \E i \in CallsOf(t, {"raw", "pre", "word", "space"}) :
             Calls[i].s = escapeText(tree[t].Data)
      /\ \A i \in (OpenEnd(n) + 1)..(CloseAt(n) - 1) : Calls[i].kind \notin {"nl", "indent"}

\* C2 (amended): every text node inside a pre element that is not inside a
\* script, style or noscript element is written with only &, < and >
\* replaced by their entities; text inside such a literal element is written
\* raw; and what is written between the opening tag of the pre and </pre> is
\* exactly the markup of its content: no indentation, no newline and no wrap
\* of the printer's own, also around the tags of nested elements.
C2_KeepSpaceFidelity ==
  \A n \in Nodes :
    (has(keepSpaceTags, n) /\ Closed(n)) =>
      /\ \A t \in TextBelow(n) :
           (~Inside(t, literalTags)) =>
             \E i \in CallsOf(t, {"pre"}) : Calls[i].s = escapeText(tree[t].Data)
      /\ \A i \in (OpenEnd(n) + 1)..(CloseAt(n) - 1) : Calls[i].kind \notin {"nl", "indent"}
      /\ Between(n) = Markup(n, Inside(n, literalTags))

\* a pre holding a paragraph that holds text with spaces and a newline,
\* printed with a wrap width shorter than the content
C2_Witness ==
  /\ Finished
  /\ p.wrapWidth = 5 /\ p.indentStr # <<>>
  /\ \E n, e, t \in Nodes :
       /\ has(keepSpaceTags, n) /\ Closed(n)
       /\ tree[e].Type = "Element" /\ ~has(inlineTags, e) /\ Parent(e) = n
       /\ tree[t].Type = "Text" /\ Parent(t) = e
       /\ LF \in {tree[t].Data[i] : i \in 1..Len(tree[t].Data)}

-----------------------------------------------------------------------------
(* C3: escaping round trip                                                 *)

EntityOf(c) ==
  CASE c = AMP -> <<"&", "a", "m", "p", ";">>
    [] c = LT -> <<"&", "l", "t", ";">>
    [] c = GT -> <<"&", "g", "t", ";">>
    [] OTHER -> <<c>>

\* what a parser makes of the three entities, reading left to right
RECURSIVE DecodeEntities(_)
DecodeEntities(s) ==
  IF s = <<>> THEN <<>>
  ELSE IF HasPrefix(s, EntityOf(AMP)) THEN <<AMP>> \o DecodeEntities(Drop(s, 5))
  ELSE IF HasPrefix(s, EntityOf(LT)) THEN <<LT>> \o DecodeEntities(Drop(s, 4))
  ELSE IF HasPrefix(s, EntityOf(GT)) THEN <<GT>> \o DecodeEntities(Drop(s, 4))
  ELSE <<Head(s)>> \o DecodeEntities(Tail(s))

\* C3: escapeText replaces every & by &amp;, every < by &lt; and every > by
\* &gt;, leaves every other character (the quotes too) as it is and never
\* escapes the & of an entity it wrote, so decoding the three entities in
\* the result gives the argument back.
C3_EscapeRoundTrip ==
  pc = "return" =>
    /\ res = Join([i \in 1..Len(arg) |-> EntityOf(arg[i])])
    /\ DecodeEntities(res) = arg

\* the argument is itself the text of an entity
C3_Witness ==
  /\ pc = "return"
  /\ arg = <<AMP, "l", "t", ";">>
  /\ res = <<"&", "a", "m", "p", ";", "l", "t", ";">>

-----------------------------------------------------------------------------
(* Lines of the output: a line ends with a newline that endl wrote.        *)

LineFirst(i) ==
  LET ends == {j \in 1..(i - 1) : Calls[j].kind = "nl"}
  IN IF ends = {} THEN 1 ELSE Max(ends) + 1

LineLast(i) ==
  LET ends == {j \in i..Len(Calls) : Calls[j].kind = "nl"}
  IN IF ends = {} THEN Len(Calls) ELSE Min(ends)

\* bytes on the line of call i before it, and up to its end
WidthBefore(i) == len(Bytes(LineFirst(i), i - 1))
WidthThrough(i) == len(Bytes(LineFirst(i), i))

FirstOnLine(i) == \A j \in LineFirst(i)..(i - 1) : Calls[j].kind = "indent"

\* the call carries literal or keep-space content, or a tag inside it
InContent(i) ==
  \/ Calls[i].kind \in {"raw", "pre"}
  \/ Inside(Calls[i].node, literalTags \cup keepSpaceTags)
  \/ /\ Calls[i].kind = "close"
     /\ has(literalTags \cup keepSpaceTags, Calls[i].node)

TokenKinds == {"tag", "attr", "word", "space", "close", "doctype"}

-----------------------------------------------------------------------------
(* C4: the wrap width                                                      *)

\* C4 as stated: with a wrap width W > 0, every line built from tokens
\* outside literal and keep-space content is at most W bytes long, unless it
\* holds a single token that alone is longer than W.
C4_Original ==
  p.wrapWidth > 0 =>
    \A i \in 1..Len(Calls) :
      (Calls[i].kind \in TokenKinds
         /\ \A j \in LineFirst(i)..LineLast(i) : ~InContent(j)) =>
        \/ len(Bytes(LineFirst(i), LineLast(i))) - (IF Calls[LineLast(i)].kind = "nl" THEN 1 ELSE 0)
             <= p.wrapWidth
        \/ /\ \A j \in LineFirst(i)..LineLast(i) : j = i \/ Calls[j].kind \notin TokenKinds
           /\ len(TrimLeft(Calls[i].s)) > p.wrapWidth

\* the tokens that are written without wrapping: the tag-name token of an
\* inline element glued to what precedes it, the first attribute after a
\* tag-name token that starts its line and is shorter than two indents, and
\* the first word of text glued to inline content
Unwrapped(i) ==
  LET n == Calls[i].node
  IN CASE Calls[i].kind = "tag" -> has(inlineTags, n) /\ startSpaceMatters(n)
       [] Calls[i].kind = "attr" ->
            /\ i = TagAt(n) + 1
            /\ FirstOnLine(TagAt(n))
            /\ len(tagTokens(n)[1]) < 2 * len(p.indentStr)
       [] Calls[i].kind = "word" ->
            /\ i = Min(CallsOf(n, {"word"}))
            /\ (has(inlineTags, PrevSibling(n)) \/ has(inlineTags, Parent(n)))
            /\ Calls[i].s[1] # SP
       [] OTHER -> TRUE

\* C4 (amended): with a wrap width W > 0, every opening-tag token and every
\* word outside literal and keep-space content ends at most W bytes into its
\* line, or is the first token on its line after the indentation, or is one
\* of the tokens written without wrapping.  Closing tags, a lone space and
\* the unwrapped tokens can carry a line past W.
C4_WrapWidth ==
  p.wrapWidth > 0 =>
    \A i \in 1..Len(Calls) :
      (Calls[i].kind \in {"tag", "attr", "word"} /\ ~InContent(i)) =>
        \/ WidthThrough(i) <= p.wrapWidth
        \/ FirstOnLine(i)
        \/ Unwrapped(i)

\* a text node of which a word was moved to a new line, and an attribute
\* that was moved to a new line with its extra indentation
C4_Witness ==
  /\ Finished
  /\ p.wrapWidth > 0 /\ p.indentStr # <<>>
  /\ \E i \in 3..Len(Calls) :
       /\ Calls[i].kind = "word"
       /\ Calls[i - 2].kind = "nl" /\ Calls[i - 2].node = Calls[i].node
  /\ \E i \in 3..Len(Calls) :
       /\ Calls[i].kind = "attr"
       /\ Calls[i - 2].kind = "nl" /\ Calls[i - 2].node = Calls[i].node
       /\ HasPrefix(Calls[i].s, Repeat(p.indentStr, 2))

-----------------------------------------------------------------------------
(* C6: void elements                                                       *)

VoidNext ==
  /\ pc = "walk" /\ next # nil
  /\ tree[next].Type = "Element"
  /\ has(voidTags, next)

NoVoidOutput ==
  \A i \in 1..Len(Calls) :
    /\ ~(Calls[i].kind = "close" /\ has(voidTags, Calls[i].node))
    /\ ~Inside(Calls[i].node, voidTags)

\* C6: a void element gets its opening tag only: no closing tag is ever
\* written for it, nothing below it produces output, the walk continues with
\* its next sibling, and the indent level and the literal and keep-space
\* depths are the same after the element as before it.
C6_VoidCompleteness ==
  [][/\ NoVoidOutput'
     /\ \A n \in Nodes :
          (VoidNext /\ n = next) =>
            /\ Opened(n)'
            /\ p'.level = p.level
            /\ p'.literalDepth = p.literalDepth
            /\ p'.keepSpaceDepth = p.keepSpaceDepth
            /\ stack' = stack
            /\ next' = NextSibling(n)]_vars

\* a void element that has a child in the tree was printed
C6_Witness ==
  /\ Finished
  /\ \E n \in Nodes :
       /\ has(voidTags, n)
       /\ Children(n) # {}
       /\ Opened(n)
       /\ Parent(n) # 1

-----------------------------------------------------------------------------
(* C7: the words of a text node                                            *)

RECURSIVE AsciiFieldsFrom(_, _, _)
AsciiFieldsFrom(s, i, word) ==
  IF i > Len(s) THEN (IF word = <<>> THEN <<>> ELSE <<word>>)
  ELSE IF s[i] \in whitespaceChars
       THEN (IF word = <<>> THEN <<>> ELSE <<word>>) \o AsciiFieldsFrom(s, i + 1, <<>>)
       ELSE AsciiFieldsFrom(s, i + 1, Append(word, s[i]))

AsciiFields(s) == AsciiFieldsFrom(s, 1, <<>>)

\* the words written for a text node, without the space around them
WordsOf(t) ==
  LET cs == SortedSeq(CallsOf(t, {"word"}))
  IN [k \in 1..Len(cs) |-> TrimRight(TrimLeft(Calls[cs[k]].s))]

FlowingText(t) ==
  /\ tree[t].Type = "Text"
  /\ Parent(t) # 1
  /\ ~Inside(t, literalTags \cup keepSpaceTags \cup voidTags)

\* C7 as stated: for every text node outside literal and keep-space content
\* the words Print emits are, at every wrap width, the words of the escaped
\* text separated by ASCII whitespace, none split and none joined.
C7_Original ==
  Finished =>
    \A t \in Nodes :
      FlowingText(t) => WordsOf(t) = AsciiFields(escapeText(tree[t].Data))

-----------------------------------------------------------------------------
(* C8: text glued to an inline element                                     *)

GluedText(t) ==
  /\ tree[t].Type = "Text"
  /\ tree[t].Data # <<>>
  /\ tree[t].Data[1] \notin whitespaceChars
  /\ ~IsSpace(tree[t].Data[1])
  /\ \/ has(inlineTags, PrevSibling(t))
     \/ PrevSibling(t) = nil /\ has(inlineTags, Parent(t))
  /\ ~Inside(t, literalTags \cup keepSpaceTags \cup voidTags)

FirstWord(t) == Min(CallsOf(t, {"word"}))

NothingBefore(i) ==
  /\ i > 1
  /\ Calls[i - 1].kind \notin {"nl", "indent", "space"}
  /\ Calls[i].s[1] # SP

\* C8 as stated: text that does not begin with whitespace and follows an
\* inline element, or is the first child of one, has no space, newline or
\* indentation between the preceding output and its first word.
C8_Original ==
  \A t \in Nodes :
    (GluedText(t) /\ CallsOf(t, {"word"}) # {}) => NothingBefore(FirstWord(t))

\* C8 (amended): the same, for text whose parent is not a list-like element
\* (amp-img, ol, picture, svg, ul); under a list-like parent the line has been
\* ended after the preceding element or after the parent's opening tag.
C8_GluedText ==
  \A t \in Nodes :
    (GluedText(t) /\ ~has(listTags, Parent(t)) /\ CallsOf(t, {"word"}) # {})
      => NothingBefore(FirstWord(t))

\* a first word that follows an inline sibling's closing tag beyond the wrap
\* width
C8_Witness ==
  /\ Finished
  /\ p.wrapWidth > 0
  /\ \E t \in Nodes :
       /\ GluedText(t) /\ ~has(listTags, Parent(t))
       /\ CallsOf(t, {"word"}) # {}
       /\ Calls[FirstWord(t) - 1].kind = "close"
       /\ Calls[FirstWord(t) - 1].node = PrevSibling(t)
       /\ WidthThrough(FirstWord(t)) > p.wrapWidth

-----------------------------------------------------------------------------
(* C9: an inline element glued to what precedes it                         *)

GluedInline(n) ==
  /\ tree[n].Type = "Element"
  /\ has(inlineTags, n)
  /\ ~Inside(n, literalTags \cup keepSpaceTags \cup voidTags)
  /\ LET prev == PrevSibling(n)
     IN \/ /\ prev # nil
           /\ tree[prev].Type = "Text"
           /\ tree[prev].Data # <<>>
           /\ tree[prev].Data[Len(tree[prev].Data)] \notin whitespaceChars
        \/ has(inlineTags, prev)
        \/ has(inlineTags, Parent(n))

-----------------------------------------------------------------------------
(* C10: promotion of a small element to one line                           *)

Promotable(n) ==
  /\ tree[n].Type = "Element"
  /\ ~has(literalTags \cup keepSpaceTags, n)
  /\ ~Inside(n, literalTags \cup keepSpaceTags \cup voidTags)
  /\ \/ Children(n) = {}
     \/ hasSingleChild(n) /\ tree[FirstChild(n)].Type = "Text"

WholeLen(n) ==
  len(Join(tagTokens(n)))
    + (IF Children(n) = {} THEN 0
       ELSE len(collapseText(escapeText(tree[FirstChild(n)].Data), FirstChild(n))))
    + len(closeTag(n))

\* C10 as stated: with a wrap width W > 0, an element outside literal and
\* keep-space content that is no literal or keep-space tag and has no
\* children or one text child, and whose opening tag, collapsed escaped text
\* and closing tag together with what is on the line before it take at most
\* W bytes, is written with no newline from its opening tag to its closing
\* tag.
C10_Original ==
  p.wrapWidth > 0 =>
    \A n \in Nodes :
      (Promotable(n) /\ Opened(n) /\ Closed(n)
         /\ WidthBefore(TagAt(n)) + WholeLen(n) <= p.wrapWidth)
        => \A i \in TagAt(n)..CloseAt(n) : Calls[i].kind # "nl"

-----------------------------------------------------------------------------
(* C11: wrapping disabled                                                  *)

NoWraps == { -1, 0 }

InitNoWrap ==
  /\ tree \in Trees
  /\ \E indent \in Indents, wrapWidth \in NoWraps : p = newPrinter(indent, wrapWidth, -1)
  /\ stack = <<>>
  /\ next = nil
  /\ pc = "start"
  /\ ret = noError
  /\ arg = <<>>
  /\ res = <<>>

SpecNoWrap == InitNoWrap /\ [][Next]_vars

\* every newline was written by endl on behalf of an element or a doctype,
\* none by a text node and none after the first token of an opening tag
NoBreakInside ==
  \A i \in 1..Len(Calls) :
    /\ Calls[i].kind \in {"tag", "attr", "word", "space", "close", "doctype", "indent"}
         => \A k \in 1..Len(Calls[i].s) : Calls[i].s[k] # LF
    /\ Calls[i].kind = "nl" =>
         /\ tree[Calls[i].node].Type \in {"Element", "Doctype"}
         /\ tree[Calls[i].node].Type = "Element" /\ Opened(Calls[i].node)
              => ~(TagAt(Calls[i].node) < i /\ i <= OpenEnd(Calls[i].node))

SmallElement(n) ==
  /\ tree[n].Type = "Element"
  /\ \/ Children(n) = {}
     \/ hasSingleChild(n) /\ tree[FirstChild(n)].Type = "Text"

OnOneLine(n) == \A i \in TagAt(n)..CloseAt(n) : Calls[i].kind # "nl"

\* C11 as stated: with wrap <= 0 no line is broken inside a text node or an
\* opening tag, newlines come only at element boundaries, and every element
\* with no children or exactly one text child is on a single line.
C11_Original ==
  p.wrapWidth <= 0 =>
    /\ NoBreakInside
    /\ \A n \in Nodes : (SmallElement(n) /\ Opened(n) /\ Closed(n)) => OnOneLine(n)

\* C11 (amended): the same, except that a list-like element (amp-img, ol,
\* picture, svg, ul) with a text child has the text on a line of its own.
C11_NoWrap ==
  p.wrapWidth <= 0 =>
    /\ NoBreakInside
    /\ \A n \in Nodes :
         (SmallElement(n) /\ Opened(n) /\ Closed(n)
            /\ ~(has(listTags, n) /\ Children(n) # {}))
           => OnOneLine(n)

\* with a negative wrap width, a paragraph of several words and a tag with
\* attributes, each longer than the widths used elsewhere, were printed
C11_Witness ==
  /\ Finished
  /\ p.wrapWidth < 0
  /\ \E n \in Nodes :
       /\ SmallElement(n) /\ Children(n) # {} /\ Closed(n)
       /\ Cardinality(CallsOf(FirstChild(n), {"word"})) > 1
       /\ WidthThrough(CloseAt(n)) > 10
  /\ \E n \in Nodes :
       /\ Opened(n) /\ OpenEnd(n) > TagAt(n)
       /\ WidthThrough(OpenEnd(n)) > 10

-----------------------------------------------------------------------------
(* Sinks that reject a write, and roots that are no document               *)

MaxWrites == 4   \* writes a failing sink accepts before it rejects one

\* ok = -1: the sink never fails; ok = k: it accepts k writes, then fails
Sinks == {-1} \cup 0..MaxWrites

\* trees whose root is not a Document node
BadRoots ==
  { <<Place(Element(<<"p">>, <<>>), nil)>>,
    <<Place(Text(<<"x">>), nil)>>,
    <<Place(Element(<<"p">>, <<>>), nil), Place(Text(<<"x">>), 1)>> }

IOTrees == TreesOf(DocLabels, DocLabels, MaxNodes) \cup BadRoots

InitIO ==
  /\ tree \in IOTrees
  /\ \E indent \in Indents, wrapWidth \in Wraps, ok \in Sinks :
       p = newPrinter(indent, wrapWidth, ok)
  /\ stack = <<>>
  /\ next = nil
  /\ pc = "start"
  /\ ret = noError
  /\ arg = <<>>
  /\ res = <<>>

SpecIO == InitIO /\ [][Next]_vars

Failed == {i \in 1..Len(Calls) : Calls[i].failed}

\* the nodes doc() and element() visit: those below no void element
RECURSIVE Walked(_)
Walked(n) ==
  \/ n = 1
  \/ /\ Parent(n) # nil
     /\ Walked(Parent(n))
     /\ tree[Parent(n)].Type \in {"Document", "Element"}
     /\ ~has(voidTags, Parent(n))

\* a node of a kind its parent's loop does not handle
Unhandled(n) ==
  /\ n # 1 /\ Walked(n)
  /\ IF Parent(n) = 1 THEN tree[n].Type \notin {"Doctype", "Element"}
     ELSE tree[n].Type \notin {"Element", "Text", "Comment"}

Malformed == tree[1].Type # "Document" \/ \E n \in Nodes : Unhandled(n)

-----------------------------------------------------------------------------
(* C12: the write error is sticky                                          *)

\* C12: once a write to the sink has failed, Print makes no further write:
\* a failed write is the last write of the call, and the printer holds its
\* error from then on.
C12_StickyError ==
  /\ \A i \in Failed : i = Len(Calls)
  /\ (Failed # {}) <=> (p.werr # noError)

\* the first write failed and the walk went on over an element with text
C12_Witness ==
  /\ pc = "done"
  /\ Len(Calls) = 1 /\ Failed = {1}
  /\ \E n \in Nodes :
       /\ n > Calls[1].node
       /\ tree[n].Type = "Text" /\ Walked(n) /\ Parent(n) # 1

-----------------------------------------------------------------------------
(* C13: the error Print returns                                            *)

\* C13 as stated: whenever the sink rejected a write, Print returns the
\* error of that write, whatever follows in the tree.
C13_Original == (pc = "done" /\ Failed # {}) => ret = "write failed"

\* C13 (amended): when the walk meets no node it does not handle, Print
\* returns the error of the first failed write, and nil if no write failed;
\* when the walk meets such a node (the root included), Print returns the
\* structural error, whether or not a write failed before.
C13_FirstError ==
  pc = "done" =>
    IF Malformed THEN ret \notin {noError, "write failed"}
    ELSE IF Failed # {} THEN ret = "write failed"
    ELSE ret = noError

\* a write after the first one failed, more of the tree followed, and Print
\* returned the write's error
C13_Witness ==
  /\ pc = "done" /\ ret = "write failed"
  /\ \E i \in Failed : i > 1
  /\ \E n \in Nodes : n > Calls[Len(Calls)].node /\ Walked(n) /\ tree[n].Type = "Element"

-----------------------------------------------------------------------------
(* C14: structural errors                                                  *)

\* C14: a root that is no Document makes Print return an error with nothing
\* written; a child of a kind the walk does not handle makes Print return an
\* error at once, with no write after it was met, and nothing happens after
\* Print has returned.
C14_StructuralError ==
  [][/\ pc # "done"
     /\ (pc = "start" /\ tree[1].Type # "Document") =>
          pc' = "done" /\ ret' # noError /\ Calls' = <<>>
     /\ \A n \in Nodes :
          (pc = "walk" /\ n = next /\ Unhandled(n)) =>
            pc' = "done" /\ ret' # noError /\ Calls' = Calls]_vars

\* the walk ended at an unhandled child inside an element whose opening tag
\* was written and whose closing tag was not
C14_Witness ==
  /\ pc = "done"
  /\ ret = "unexpected node"
  /\ \E n \in Nodes :
       /\ Opened(n) /\ ~Closed(n)
       /\ \E c \in Children(n) : Unhandled(c)

-----------------------------------------------------------------------------
(* C15: comments                                                           *)

\* C15 as stated: a Comment node, under an element or under the Document,
\* contributes no bytes to the output and never makes Print return an error:
\* a tree whose only unusual nodes are comments is printed without error.
C15_Original ==
  /\ \A i \in 1..Len(Calls) : tree[Calls[i].node].Type # "Comment"
  /\ (/\ pc = "done"
      /\ tree[1].Type = "Document"
      /\ \A n \in Nodes : Unhandled(n) => tree[n].Type = "Comment")
       => ret = noError

-----------------------------------------------------------------------------
(* Opening tags with attributes                                            *)

MaxAttrs == 2   \* attributes of the element

AttrPool ==
  { Attribute(<<"k">>, <<"a", QUOT, "b">>),
    Attribute(<<"k">>, <<>>),
    Attribute(<<"k">>, <<SP, "a", SP, SP, "b", SP>>),
    Attribute(<<"c", "l", "a", "s", "s">>, <<SP, "a", TAB, SP, "b", LF>>),
    Attribute(<<"c", "l", "a", "s", "s">>, <<VT, "a">>),
    Attribute(<<"i", "d">>, <<AMP, QUOT>>) }

RECURSIVE AttrLists(_)
AttrLists(k) ==
  IF k = 0 THEN {<<>>}
  ELSE LET shorter == AttrLists(k - 1)
       IN shorter \cup {Append(as, a) : as \in {s \in shorter : Len(s) = k - 1}, a \in AttrPool}

AttrTrees ==
  { <<Place(Document, nil), Place(Element(<<"a">>, as), 1)>> : as \in AttrLists(MaxAttrs) }
    \cup TreesOf(DocLabels, DocLabels, 2)

InitAttr ==
  /\ tree \in AttrTrees
  /\ \E indent \in Indents, wrapWidth \in Wraps : p = newPrinter(indent, wrapWidth, -1)
  /\ stack = <<>>
  /\ next = nil
  /\ pc = "start"
  /\ ret = noError
  /\ arg = <<>>
  /\ res = <<>>

SpecAttr == InitAttr /\ [][Next]_vars

-----------------------------------------------------------------------------
(* C16: the format of attributes                                           *)

RECURSIVE AsciiTrimLeft(_)
AsciiTrimLeft(s) ==
  IF s # <<>> /\ s[1] \in whitespaceChars THEN AsciiTrimLeft(Tail(s)) ELSE s

RECURSIVE AsciiTrimRight(_)
AsciiTrimRight(s) ==
  IF s # <<>> /\ s[Len(s)] \in whitespaceChars
  THEN AsciiTrimRight(SubSeq(s, 1, Len(s) - 1)) ELSE s

QuotesEscaped(v) == Replace(v, <<QUOT>>, <<"&", "q", "u", "o", "t", ";">>)

\* ' key' or ' key="v"', with ASCII whitespace meant for class
StatedToken(a) ==
  IF a.Val = <<>> THEN <<SP>> \o a.Key
  ELSE <<SP>> \o a.Key \o <<"=", QUOT>>
         \o (IF a.Key = <<"c", "l", "a", "s", "s">>
             THEN AsciiTrimRight(AsciiTrimLeft(whitespaceReplaceAll(QuotesEscaped(a.Val))))
             ELSE QuotesEscaped(a.Val))
         \o <<QUOT>>

StatedTokens(n) ==
  LET attrs == tree[n].Attr
      toks == <<<<LT>> \o tree[n].Data>> \o [i \in 1..Len(attrs) |-> StatedToken(attrs[i])]
  IN [toks EXCEPT ![Len(toks)] = @ \o <<GT>>]

\* C16 as stated: the opening tag is written as its tag name and then the
\* attributes in tree order, each as ' key' or ' key="v"' with only the
\* double quotes of v replaced, and for class ASCII whitespace collapsed and
\* trimmed; '>' closes the last token and never starts a line.  A wrapped
\* token has its leading space replaced by the line break and indentation.
C16_Original ==
  \A n \in Nodes :
    Opened(n) =>
      LET cs == SortedSeq(CallsOf(n, {"tag", "attr"}))
          toks == StatedTokens(n)
      IN /\ Len(cs) = Len(toks)
         /\ \A k \in 1..Len(cs) :
              /\ Calls[cs[k]].kind = (IF k = 1 THEN "tag" ELSE "attr")
              /\ TrimLeft(Calls[cs[k]].s) = TrimLeft(toks[k])
              /\ TrimLeft(Calls[cs[k]].s)[1] # GT

-----------------------------------------------------------------------------
(* C17: attribute values                                                   *)

\* openTag's value of an attribute k="arg"
AttrValueCall ==
  /\ pc = "call"
  /\ res' = attrValue(Attribute(<<"k">>, arg))
  /\ pc' = "return"
  /\ UNCHANGED <<tree, p, stack, next, ret, arg>>

SpecAttrValue == InitEscape /\ [][AttrValueCall]_vars

\* what a parser makes of an attribute value: the three entities and &quot;
RECURSIVE DecodeValue(_)
DecodeValue(s) ==
  IF s = <<>> THEN <<>>
  ELSE IF HasPrefix(s, <<"&", "q", "u", "o", "t", ";">>)
       THEN <<QUOT>> \o DecodeValue(Drop(s, 6))
  ELSE IF HasPrefix(s, EntityOf(AMP)) THEN <<AMP>> \o DecodeValue(Drop(s, 5))
  ELSE IF HasPrefix(s, EntityOf(LT)) THEN <<LT>> \o DecodeValue(Drop(s, 4))
  ELSE IF HasPrefix(s, EntityOf(GT)) THEN <<GT>> \o DecodeValue(Drop(s, 4))
  ELSE <<Head(s)>> \o DecodeValue(Tail(s))

\* C17 as stated: for an attribute other than class, decoding the entities
\* of the emitted value gives back the original value, so no two values are
\* emitted alike.
C17_Original == pc = "return" => DecodeValue(res) = arg

-----------------------------------------------------------------------------
(* C18: the tag tables                                                     *)

\* C18: no tag is both void and literal or keep-space, none is both literal
\* and keep-space, and element() never panics over such a tag.
C18_TagTables ==
  /\ voidTags \cap (literalTags \cup keepSpaceTags) = {}
  /\ literalTags \cap keepSpaceTags = {}
  /\ pc # "panic"

\* element() returned from a void element after testing its tag
C18_Witness ==
  /\ pc = "walk"
  /\ stack # <<>>
  /\ \E n \in Nodes :
       /\ has(voidTags, n) /\ Opened(n)
       /\ next = NextSibling(n)
       /\ p.literalDepth = 0 /\ p.keepSpaceDepth = 0

-----------------------------------------------------------------------------
(* Rows of inline elements, blocks, comments and text under one element    *)

MaxKids == 3   \* children of the element

RowPool ==
  { Element(<<"b">>, <<>>),
    Element(<<"p">>, <<>>),
    Comment,
    Text(<<SP>>),
    Text(<<SP, "x", SP>>),
    Text(<<"x">>) }

RECURSIVE Rows(_)
Rows(k) ==
  IF k = 0 THEN {<<>>}
  ELSE LET shorter == Rows(k - 1)
       IN shorter \cup {Append(r, l) : r \in {s \in shorter : Len(s) = k - 1}, l \in RowPool}

RowTrees ==
  { <<Place(Document, nil), Place(Element(tag, <<>>), 1)>>
      \o [i \in 1..Len(r) |-> Place(r[i], 2)] :
      tag \in {<<"p">>, <<"b">>}, r \in Rows(MaxKids) }
    \cup TreesOf(DocLabels, DocLabels, 2)

InitRow ==
  /\ tree \in RowTrees
  /\ \E indent \in Indents, wrapWidth \in Wraps : p = newPrinter(indent, wrapWidth, -1)
  /\ stack = <<>>
  /\ next = nil
  /\ pc = "start"
  /\ ret = noError
  /\ arg = <<>>
  /\ res = <<>>

SpecRow == InitRow /\ [][Next]_vars

-----------------------------------------------------------------------------
(* C19: whitespace at the ends of text next to inline content              *)

\* what text() wrote of the node itself
Emitted(t) ==
  LET cs == SortedSeq(CallsOf(t, {"word", "space"}))
  IN Join([k \in 1..Len(cs) |-> Calls[cs[k]].s])

\* the first word went to a new line: the line break stands for its space
FirstWordWrapped(t) ==
  /\ CallsOf(t, {"word"}) # {}
  /\ FirstWord(t) > 2
  /\ Calls[FirstWord(t) - 2].kind = "nl"
  /\ Calls[FirstWord(t) - 2].node = t

AllSpace(s) == \A k \in 1..Len(s) : s[k] \in whitespaceChars

LeadInline(t) == has(inlineTags, Parent(t)) \/ has(inlineTags, PrevSibling(t))
TrailInline(t) == has(inlineTags, Parent(t)) \/ has(inlineTags, NextSibling(t))

OneSpaceFirst(s) == s # <<>> /\ s[1] = SP /\ (Len(s) > 1 => s[2] # SP)
OneSpaceLast(s) == s # <<>> /\ s[Len(s)] = SP /\ (Len(s) > 1 => s[Len(s) - 1] # SP)
NoSpaceFirst(s) == s = <<>> \/ s[1] # SP
NoSpaceLast(s) == s = <<>> \/ s[Len(s)] # SP

PrintedText(t) ==
  /\ tree[t].Type = "Text" /\ tree[t].Data # <<>>
  /\ Parent(t) # 1 /\ Walked(t)
  /\ ~Inside(t, literalTags \cup keepSpaceTags)

\* C19 as stated: next to an inline parent or sibling, whitespace at that
\* end of the text is written as exactly one space (or as the line break of
\* a wrap) and never dropped, also when the node is all whitespace (then one
\* space is written); with neither inline, the whitespace at that end is
\* removed, and an all-whitespace node writes nothing.
C19_Original ==
  Finished =>
    \A t \in Nodes :
      PrintedText(t) =>
        LET d == tree[t].Data
            e == Emitted(t)
        IN /\ (LeadInline(t) /\ d[1] \in whitespaceChars)
                => (OneSpaceFirst(e) \/ FirstWordWrapped(t))
           /\ (TrailInline(t) /\ d[Len(d)] \in whitespaceChars) => OneSpaceLast(e)
           /\ (AllSpace(d) /\ (LeadInline(t) \/ TrailInline(t))) => e = <<SP>>
           /\ (~LeadInline(t) /\ ~AllSpace(d)) => NoSpaceFirst(e)
           /\ (~TrailInline(t) /\ ~AllSpace(d)) => NoSpaceLast(e)
           /\ (AllSpace(d) /\ ~LeadInline(t) /\ ~TrailInline(t)) => e = <<>>

\* C19 (amended): for text that is not all whitespace the same holds at each
\* end; a node that is all whitespace is written as one space when its
\* parent is inline or both its siblings are inline elements, and writes
\* nothing otherwise, also when just one sibling is inline.
C19_InlineSpace ==
  Finished =>
    \A t \in Nodes :
      PrintedText(t) =>
        LET d == tree[t].Data
            e == Emitted(t)
        IN IF AllSpace(d)
           THEN e = (IF \/ has(inlineTags, Parent(t))
                        \/ has(inlineTags, PrevSibling(t)) /\ has(inlineTags, NextSibling(t))
                     THEN <<SP>> ELSE <<>>)
           ELSE /\ (LeadInline(t) /\ d[1] \in whitespaceChars)
                     => (OneSpaceFirst(e) \/ FirstWordWrapped(t))
                /\ (TrailInline(t) /\ d[Len(d)] \in whitespaceChars) => OneSpaceLast(e)
                /\ ~LeadInline(t) => NoSpaceFirst(e)
                /\ ~TrailInline(t) => NoSpaceLast(e)

\* under a block parent: text with spaces at both ends that follows an
\* inline element and is the last child, and an all-whitespace node with
\* just one inline sibling
C19_Witness ==
  /\ Finished
  /\ Len(tree) > 1 /\ ~has(inlineTags, 2)
  /\ \E t \in Nodes :
       /\ PrintedText(t) /\ ~AllSpace(tree[t].Data)
       /\ has(inlineTags, PrevSibling(t)) /\ NextSibling(t) = nil
       /\ tree[t].Data[1] = SP /\ tree[t].Data[Len(tree[t].Data)] = SP
       /\ Emitted(t) = <<SP, "x">>
  /\ \E t \in Nodes :
       /\ PrintedText(t) /\ AllSpace(tree[t].Data)
       /\ ~has(inlineTags, PrevSibling(t)) /\ has(inlineTags, NextSibling(t))
       /\ Emitted(t) = <<>>

-----------------------------------------------------------------------------
(* C20: comments between text and inline content                           *)

\* the nearest sibling before n that is not a comment
RECURSIVE PrevPrinted(_)
PrevPrinted(n) ==
  LET prev == PrevSibling(n)
  IN IF prev # nil /\ tree[prev].Type = "Comment" THEN PrevPrinted(prev) ELSE prev

AfterComment(n) ==
  /\ Parent(n) # nil /\ Parent(n) # 1 /\ Walked(n)
  /\ PrevSibling(n) # nil /\ tree[PrevSibling(n)].Type = "Comment"
  /\ PrevPrinted(n) # nil

\* C20 as stated: text and an inline element, or two text nodes, with only
\* comments between them are printed as neighbours: whitespace at the
\* facing end of the text is kept as one separator, and where there is none,
\* no space and no line break comes between the two.
C20_Original ==
  Finished =>
    \A n \in Nodes :
      AfterComment(n) =>
        LET s == PrevPrinted(n)
            d == tree[n].Data
            ds == tree[s].Data
        IN /\ (PrintedText(n) /\ ~AllSpace(d) /\ has(inlineTags, s)) =>
                IF d[1] \in whitespaceChars
                THEN OneSpaceFirst(Emitted(n)) \/ FirstWordWrapped(n)
                ELSE NothingBefore(FirstWord(n))
           /\ (has(inlineTags, n) /\ PrintedText(s) /\ ds[Len(ds)] \notin whitespaceChars) =>
                Calls[TagAt(n) - 1].kind \notin {"nl", "indent", "space"}
           /\ (PrintedText(n) /\ PrintedText(s)
                 /\ d[1] \notin whitespaceChars /\ ds[Len(ds)] \notin whitespaceChars) =>
                NothingBefore(FirstWord(n))

-----------------------------------------------------------------------------
(* C21: the three counters                                                 *)

\* the calls of element() that have not returned and indented their children
IndentedFrames ==
  {i \in 1..Len(stack) :
     /\ FirstChild(stack[i].n) # nil
     /\ ~stack[i].inline \/ has(listTags, stack[i].n)}

FramesOf(tags) == {i \in 1..Len(stack) : has(tags, stack[i].n)}

Structural == {"root node has non-document type", "unhandled doc child", "unexpected node"}

\* C21: the indent level, the literal depth and the keep-space depth are
\* never negative; between two node visits each counts exactly the calls of
\* element() that are still open and raised it, so that a call of element()
\* that returns without error leaves all three as it found them, whatever
\* kind of element it printed; and when Print returns without a structural
\* error all three are 0.
C21_Balanced ==
  /\ p.level >= 0 /\ p.literalDepth >= 0 /\ p.keepSpaceDepth >= 0
  /\ pc = "walk" =>
       /\ p.level = Cardinality(IndentedFrames)
       /\ p.literalDepth = Cardinality(FramesOf(literalTags))
       /\ p.keepSpaceDepth = Cardinality(FramesOf(keepSpaceTags))
  /\ (pc = "done" /\ ret \notin Structural) =>
       p.level = 0 /\ p.literalDepth = 0 /\ p.keepSpaceDepth = 0

\* a style element under a paragraph has returned, the paragraph is still
\* open: the literal depth is back at 0, the level still 1
C21_Witness ==
  /\ pc = "walk" /\ Len(stack) = 1
  /\ p.level = 1 /\ p.literalDepth = 0
  /\ \E n \in Nodes :
       /\ has(literalTags, n) /\ Parent(n) = stack[1].n
       /\ FirstChild(n) # nil /\ Closed(n)
-----------------------------------------------------------------------------
(* C22: lines that hold nothing                                            *)

\* C22 as stated: every newline written ends a line that holds at least one
\* token other than indentation, for every indent string, wrap width and
\* token length.
C22_Original ==
  \A i \in 1..Len(Calls) :
    Calls[i].kind = "nl" =>
      \E j \in LineFirst(i)..(i - 1) : Calls[j].kind # "indent" /\ Calls[j].s # <<>>
-----------------------------------------------------------------------------
(* C23: where a block element starts                                       *)

\* an element that was written on one line with its text: no children or a
\* single text child, and the whole of it fitted behind what its line held
Promoted(n) ==
  /\ Promotable(n) /\ Opened(n)
  /\ p.wrapWidth <= 0 \/ WidthBefore(TagAt(n)) + WholeLen(n) < p.wrapWidth

\* the enclosing elements of n that indented their children
Indenting(n) ==
  {a \in Ancestors(tree, Parent(n)) :
     /\ tree[a].Type = "Element"
     /\ Children(a) # {}
     /\ \/ ~has(inlineTags, a) /\ ~Promoted(a)
        \/ has(listTags, a)}

Depth(n) == Cardinality(Indenting(n))

\* the bytes on the line of call i before it
Before(i) == Bytes(LineFirst(i), i - 1)

\* C23: outside literal and keep-space content, the opening tag of every
\* non-inline element is the first token on its line and is preceded by
\* exactly as many copies of the indent string as it has enclosing elements
\* that indented their children.
C23_BlockStart ==
  \A n \in Nodes :
    (/\ tree[n].Type = "Element" /\ ~has(inlineTags, n)
     /\ Opened(n)
     /\ ~Inside(n, literalTags \cup keepSpaceTags)) =>
      /\ FirstOnLine(TagAt(n))
      /\ Before(TagAt(n)) = Repeat(p.indentStr, Depth(n))

\* a block element inside two elements that indented their children: its
\* tag stands behind two copies of a two-space indent
C23_Witness ==
  /\ p.indentStr = <<SP, SP>>
  /\ \E n \in Nodes :
       /\ tree[n].Type = "Element" /\ ~has(inlineTags, n) /\ Opened(n)
       /\ Depth(n) = 2
       /\ TagAt(n) > 3
       /\ Before(TagAt(n)) = <<SP, SP, SP, SP>>
-----------------------------------------------------------------------------
(* C24: the indentation of a wrapped token                                 *)

\* call i is a token that wrap() moved to a new line: an attribute or a word
\* behind the newline and the indentation that wrap() wrote for its node
Wrapped(i) ==
  /\ i > 2
  /\ Calls[i].kind \in {"attr", "word"}
  /\ Calls[i - 1].kind = "indent" /\ Calls[i - 1].node = Calls[i].node
  /\ Calls[i - 2].kind = "nl" /\ Calls[i - 2].node = Calls[i].node

\* the extra indentation the claim gives to a wrapped token
Continuation(i) ==
  IF Calls[i].kind = "attr" /\ FirstOnLine(TagAt(Calls[i].node))
  THEN Repeat(p.indentStr, 2)
  ELSE <<>>

\* C24: a token that wrap() moved to a new line stands behind as many copies
\* of the indent string as it has enclosing elements that indented their
\* children, then two further copies if it is an attribute of an opening tag
\* that began its line and nothing further if the tag did not begin its
\* line or the token is a word of text; the token follows without its
\* leading space.
C24_Continuation ==
  \A i \in 1..Len(Calls) :
    Wrapped(i) =>
      /\ Calls[i - 1].s = Repeat(p.indentStr, Depth(Calls[i].node))
      /\ HasPrefix(Calls[i].s, Continuation(i))
      /\ LET token == Drop(Calls[i].s, Len(Continuation(i)))
         IN /\ token # <<>> /\ Head(token) # SP
            /\ Calls[i].kind = "attr" =>
                 \E k \in 2..Len(tagTokens(Calls[i].node)) :
                   tagTokens(Calls[i].node)[k] = <<SP>> \o token

\* an attribute wrapped behind one level and two further copies of the
\* indent, and in the same output a word of text wrapped behind the level
\* alone
C24_Witness ==
  /\ p.indentStr = <<SP, SP>>
  /\ \E i \in 1..Len(Calls) :
       /\ Wrapped(i) /\ Calls[i].kind = "attr"
       /\ Calls[i - 1].s = <<SP, SP>>
       /\ HasPrefix(Calls[i].s, <<SP, SP, SP, SP>>)
  /\ \E j \in 1..Len(Calls) :
       /\ Wrapped(j) /\ Calls[j].kind = "word"
       /\ Calls[j - 1].s = <<SP, SP>>
-----------------------------------------------------------------------------
(* Blocks, lists and list items, also inside a pre and around text that is *)
(* all whitespace.                                                         *)

BlockTop ==
  { Element(<<"p">>, <<>>),
    Element(<<"u", "l">>, <<>>),
    Element(<<"l", "i">>, <<>>),
    Element(<<"p", "r", "e">>, <<>>) }

BlockBelow ==
  { Element(<<"p">>, <<>>),
    Element(<<"u", "l">>, <<>>),
    Element(<<"l", "i">>, <<>>),
    Element(<<"s", "v", "g">>, <<>>),
    Text(<<"x">>),
    Text(<<SP>>) }

BlockTrees ==
  TreesOf(BlockTop, BlockBelow, MaxNodes) \cup TreesOf(DocLabels, DocLabels, 2)

InitBlock ==
  /\ tree \in BlockTrees
  /\ \E indent \in Indents, wrapWidth \in Wraps : p = newPrinter(indent, wrapWidth, -1)
  /\ stack = <<>>
  /\ next = nil
  /\ pc = "start"
  /\ ret = noError
  /\ arg = <<>>
  /\ res = <<>>

SpecBlock == InitBlock /\ [][Next]_vars

-----------------------------------------------------------------------------
(* C25: the closing tag of a block element                                 *)

\* a closed element that is not inline, void, omit-close, literal or
\* keep-space and was not promoted to one line
Block(n) ==
  /\ tree[n].Type = "Element"
  /\ ~has(inlineTags \cup voidTags \cup omitCloseTags, n)
  /\ ~has(literalTags \cup keepSpaceTags, n)
  /\ Closed(n)
  /\ ~Promoted(n)

\* the closing tag of n is the first token of a line of its own and stands
\* behind the indentation of the opening tag
CloseOnOwnLine(n) ==
  /\ FirstOnLine(CloseAt(n))
  /\ LineFirst(CloseAt(n)) > TagAt(n)
  /\ Before(CloseAt(n)) = Before(TagAt(n))
  /\ CloseAt(n) < Len(Calls) /\ Calls[CloseAt(n) + 1].kind = "nl"

-----------------------------------------------------------------------------
(* C26: the omitted closing tag of li                                      *)

\* the call of element() for an omit-close element is about to return
OmitCloseReturns ==
  /\ pc = "walk" /\ stack # <<>> /\ next = nil
  /\ has(omitCloseTags, stack[Len(stack)].n)

\* C26 as stated: no closing tag is ever written for an li, and when
\* element() returns from an li the line has been ended, so that whatever is
\* written next starts a new line, also when the li has no children or one
\* short text child, whatever its parent and its next sibling are.
C26_Original ==
  [][/\ \A i \in 1..Len(Calls') :
          ~(Calls'[i].kind = "close" /\ has(omitCloseTags, Calls'[i].node))
     /\ OmitCloseReturns => p'.lineStart]_vars
-----------------------------------------------------------------------------
(* C27: list-like elements                                                 *)

\* a list-like element with children that has been printed to its end
ListDone(n) ==
  /\ tree[n].Type = "Element" /\ has(listTags, n)
  /\ Children(n) # {}
  /\ Closed(n)

\* the calls made for c and for the nodes below it
CallsBelow(c) == {i \in 1..Len(Calls) : c \in Ancestors(tree, Calls[i].node)}

\* the indentation written at the start of the line of call i
LineIndent(i) ==
  IF Calls[LineFirst(i)].kind = "indent" THEN Calls[LineFirst(i)].s ELSE <<SP>>

ListLayout(n) ==
  /\ Calls[OpenEnd(n) + 1].kind = "nl"
  /\ \A c \in Children(n) :
       /\ \A i \in CallsOf(c, {"tag", "word", "space"}) :
            LineIndent(i) = Repeat(p.indentStr, Depth(n) + 1)
       /\ tree[c].Type = "Element" =>
            /\ Opened(c)
            /\ LET last == Max(CallsBelow(c))
               IN Calls[last].kind = "nl" \/ Calls[last + 1].kind = "nl"
  /\ FirstOnLine(CloseAt(n))
  /\ Before(CloseAt(n)) = Repeat(p.indentStr, Depth(n))

-----------------------------------------------------------------------------
(* C28: characters that are no ASCII whitespace                            *)

\* the characters of s other than tab, LF, form feed, CR and space
Solid(s) == SelectSeq(s, LAMBDA c : c \notin whitespaceChars)

\* C28 as stated: of a text node outside literal and keep-space content
\* only tab, LF, form feed, CR and space are collapsed, trimmed or turned
\* into a line break; every other character of the escaped text, vertical
\* tab, U+0085 and U+00A0 too, is written unchanged and in place.
C28_Original ==
  Finished =>
    \A t \in Nodes :
      FlowingText(t) => Solid(Emitted(t)) = Solid(escapeText(tree[t].Data))
=============================================================================
